---- MODULE Spec2Model ----
(***************************************************************************)
(* Session-to-path resolution of bdbc_session_explorer.                    *)
(*                                                                         *)
(* A file name is a sequence of tokens (strings), a path is a sequence of  *)
(* names, and the filesystem is the set of the paths that exist.  A glob   *)
(* pattern is a name in which the token "*" stands for any run of tokens.  *)
(* Python's None (for Optional[Path]) is the empty path.                   *)
(***************************************************************************)
EXTENDS Integers, Sequences, FiniteSets, TLC

\* most entries matching one glob pattern that a directory holds
MaxMatches == 2

\* the most rows of a record table
MaxRows == 3

VARIABLES
    session,    \* the Session the calls are about
    fs,         \* the filesystem: the set of existing paths
    target,     \* the modality whose directory tree the filesystem holds
    call,       \* the last completed resolver call and its outcome
    run         \* the ensure_dlc_output call under way: its position and locals

vars == <<session, fs, target, call, run>>

None == <<>>

----------------------------------------------------------------------------
(* core.py *)

Policies == {"ignore", "message", "warn", "error"}

\* handle_error with the return after warnings.warn left out, so that the
\* 'warn' branch runs on into the raise of the 'error' branch
HandleError_WarnFallsThrough(msg, type, errorcls, warncls) ==
    IF type = "ignore" THEN [exc |-> "", out |-> <<>>]
    ELSE IF type = "message"
    THEN [exc |-> "", out |-> <<[kind |-> "print", cls |-> "", msg |-> msg]>>]
    ELSE IF type = "warn"
    THEN [exc |-> errorcls, out |-> <<[kind |-> "warn", cls |-> warncls, msg |-> msg]>>]
    ELSE IF type = "error" THEN [exc |-> errorcls, out |-> <<>>]
    ELSE [exc |-> "ValueError", out |-> <<>>]

\* handle_error with the final else left out: a value outside the four
\* policies is taken as 'ignore'
HandleError_UnknownIgnored(msg, type, errorcls, warncls) ==
    IF type = "message"
    THEN [exc |-> "", out |-> <<[kind |-> "print", cls |-> "", msg |-> msg]>>]
    ELSE IF type = "warn"
    THEN [exc |-> "", out |-> <<[kind |-> "warn", cls |-> warncls, msg |-> msg]>>]
    ELSE IF type = "error" THEN [exc |-> errorcls, out |-> <<>>]
    ELSE [exc |-> "", out |-> <<>>]

\* handle_error: msg is the condition reported; the outcome is the exception
\* raised ("" for none) and what was written (a printed line, a warning).
HandleError(msg, type, errorcls, warncls) ==
    IF type = "ignore" THEN [exc |-> "", out |-> <<>>]
    ELSE IF type = "message"
    THEN [exc |-> "", out |-> <<[kind |-> "print", cls |-> "", msg |-> msg]>>]
    ELSE IF type = "warn"
    THEN [exc |-> "", out |-> <<[kind |-> "warn", cls |-> warncls, msg |-> msg]>>]
    ELSE IF type = "error" THEN [exc |-> errorcls, out |-> <<>>]
    ELSE [exc |-> "ValueError", out |-> <<>>]

\* an argument the caller leaves out of the call
Omitted == "<omitted>"

\* the binding of a keyword parameter: its default when the caller omits it
WithDefault(given, default) == IF given = Omitted THEN default ELSE given

\* the parameter defaults of handle_error
handle_error_type == "warn"

handle_error_errorcls == "SessionExplorationError"

handle_error_warncls == "SessionExplorationWarning"

\* handle_error as a caller reaches it, any of type, errorcls, warncls omitted
handle_error(msg, type, errorcls, warncls) ==
    HandleError(msg, WithDefault(type, handle_error_type),
                WithDefault(errorcls, handle_error_errorcls),
                WithDefault(warncls, handle_error_warncls))

----------------------------------------------------------------------------
(* env.py *)

VIDEO_VIEWS == <<"body", "face", "eye">>

ViewLabel(view) ==
    CASE view = "body" -> "Front"
      [] view = "face" -> "Side"
      [] view = "eye" -> "Eye"

----------------------------------------------------------------------------
(* session.py *)

SessionTypes == {"task", "resting-state", "sensory-stim"}

has_rawdata(s) == s.availability.rawdata

has_video(s, view) ==
    CASE view = "body" -> s.availability.bodyvideo
      [] view = "face" -> s.availability.facevideo
      [] view = "eye" -> s.availability.eyevideo

has_any_videos(s) == \E i \in 1..Len(VIDEO_VIEWS) : has_video(s, VIDEO_VIEWS[i])

has_eyevideo(s) == has_video(s, "eye")

\* strftime('%y%m%d') and strftime('%Y-%m-%d')
shortdate(s) == <<s.date.yy, s.date.mm, s.date.dd>>

longdate(s) == <<s.date.cc, s.date.yy, "-", s.date.mm, "-", s.date.dd>>

shorttype(s) ==
    CASE s.type = "task" -> "task"
      [] s.type = "resting-state" -> "rest"
      [] s.type = "sensory-stim" -> "ss"

longtype(s) == s.type

shortbase(s) ==
    IF s.type = "task"
    THEN shortdate(s) \o <<"_", s.animal>>
    ELSE shortdate(s) \o <<"_", s.animal, "_", shorttype(s)>>

\* the Date column of a record table holds '%Y-%m-%d' strings; these are the
\* ones of the tables examined, in the ascending order of their strings
TableDates == << <<"20", "24", "-", "01", "-", "01">>, <<"20", "24", "-", "01", "-", "02">> >>

\* datetime.strptime(date, Session.FMT_LONG_DATE)
strptime(date) == [cc |-> date[1], yy |-> date[2], mm |-> date[4], dd |-> date[6]]

\* `row.Description.split(';')`, each item stripped: Description is modelled as
\* its characters grouped into items and ";" separators
RECURSIVE SplitDescription(_)
SplitDescription(d) ==
    IF \A k \in 1..Len(d) : d[k] # ";" THEN <<d>>
    ELSE LET k == CHOOSE i \in 1..Len(d) :
                    d[i] = ";" /\ \A j \in 1..(i - 1) : d[j] # ";"
         IN  <<SubSeq(d, 1, k - 1)>> \o SplitDescription(SubSeq(d, k + 1, Len(d)))

\* the value pandas gives an empty cell
NaN == "NaN"

\* str() of a cell of the Type column
str(v) == IF v = NaN THEN "nan" ELSE v

\* format_session_record with the counts compared by `>= 0`
format_session_record_NonNegative(row, batch, animal, date, sessionindex) ==
    LET descs == SplitDescription(row.Description)
    IN  [batch |-> batch, animal |-> animal, date |-> date, type |-> str(row.Type),
         dayindex |-> row.Day, sessionindex |-> sessionindex,
         availability |-> [rawdata |-> row.Data >= 0, bodyvideo |-> row.Body >= 0,
                           facevideo |-> row.Face >= 0, eyevideo |-> row.Eye >= 0],
         description |-> descs[1],
         comments |-> IF Len(descs) > 1 THEN Tail(descs) ELSE <<>>]

format_session_record(row, batch, animal, date, sessionindex) ==
    LET descs == SplitDescription(row.Description)
    IN  [batch |-> batch, animal |-> animal, date |-> date, type |-> str(row.Type),
         dayindex |-> row.Day, sessionindex |-> sessionindex,
         availability |-> [rawdata |-> row.Data > 0, bodyvideo |-> row.Body > 0,
                           facevideo |-> row.Face > 0, eyevideo |-> row.Eye > 0],
         description |-> descs[1],
         comments |-> IF Len(descs) > 1 THEN Tail(descs) ELSE <<>>]

\* records.groupby(['Date']): the keys in ascending order
GroupKeys(records) ==
    SelectSeq(TableDates, LAMBDA d : \E k \in 1..Len(records) : records[k].Date = d)

\* the sessions yielded for the groups of keys, one group after the other, the
\* rows of a group in table order and numbered from 1
RECURSIVE GroupLoop(_, _, _, _)
GroupLoop(records, keys, animal, batch) ==
    IF keys = <<>> THEN <<>>
    ELSE LET sessions == SelectSeq(records, LAMBDA r : r.Date = Head(keys))
             date == strptime(Head(keys))
         IN  [i \in 1..Len(sessions) |->
                    format_session_record(sessions[i], batch, animal, date, i)]
                \o GroupLoop(records, Tail(keys), animal, batch)

\* iterate_sessions_from_animal without the grouping: the rows in table order,
\* numbered by their place in the table
iterate_sessions_from_animal_NumbersRows(records, animal, batch) ==
    [k \in 1..Len(records) |->
        format_session_record(records[k], batch, animal, strptime(records[k].Date), k)]

\* iterate_sessions_from_animal: records is the table read from anifile, animal
\* the stem of anifile; the result is the sequence of the sessions yielded
iterate_sessions_from_animal(records, animal, batch) ==
    GroupLoop(records, GroupKeys(records), animal, batch)

----------------------------------------------------------------------------
(* pathlib *)

Parent(p) == SubSeq(p, 1, Len(p) - 1)

FileName(p) == p[Len(p)]

\* Path.stem: the name without its last suffix
Stem(p) == SubSeq(FileName(p), 1, Len(FileName(p)) - 1)

Exists(p) == p \in fs

RECURSIVE Match(_, _)
Match(pat, name) ==
    IF pat = <<>> THEN name = <<>>
    ELSE IF Head(pat) = "*"
         THEN Match(Tail(pat), name) \/ (name # <<>> /\ Match(pat, Tail(name)))
    ELSE name # <<>> /\ Head(name) = Head(pat) /\ Match(Tail(pat), Tail(name))

\* Path.glob(pat): the entries of directory dir whose name matches pat
Glob(dir, pat) ==
    {p \in fs : Len(p) = Len(dir) + 1 /\ Parent(p) = dir /\ Match(pat, FileName(p))}

IsUnder(dir, p) == Len(p) >= Len(dir) /\ SubSeq(p, 1, Len(dir)) = dir

\* shutil.rmtree(dir): what is left of the filesystem F
RmTree(F, dir) == {p \in F : ~IsUnder(dir, p)}

\* the log of filesystem accesses of a call
AccExists(p) == [op |-> "exists", path |-> p, pat |-> <<>>]

AccGlob(p, pat) == [op |-> "glob", path |-> p, pat |-> pat]

----------------------------------------------------------------------------
(* rawdata.py *)

\* the outcome of a call: what it returns, the exception it raises ("" for none),
\* what it writes, the conditions it hands to handle_error, the accesses it makes
Result(ret, exc, out, rep, acc) ==
    [ret |-> ret, exc |-> exc, out |-> out, rep |-> rep, acc |-> acc]

_camel_session(s) ==
    CASE longtype(s) = "task" -> "Task"
      [] longtype(s) = "resting-state" -> "Resting_state"
      [] longtype(s) = "sensory-stim" -> "Sensory_stim"

_configure_v0(anidir, s) ==
    [parent |-> anidir \o <<<<_camel_session(s)>>, shortdate(s)>>,
     pat |-> <<"RawData_">> \o shortdate(s) \o <<"_", s.animal, "*", ".h5">>]

\* _configure_v1 with the long name of the session type as the directory
_configure_v1_LongType(anidir, s) ==
    [parent |-> Append(anidir, <<longtype(s)>>),
     pat |-> <<"RawData_">> \o longdate(s) \o <<"_", s.animal, "*", ".h5">>]

_configure_v1(anidir, s) ==
    [parent |-> Append(anidir, <<shorttype(s)>>),
     pat |-> <<"RawData_">> \o longdate(s) \o <<"_", s.animal, "*", ".h5">>]

\* `for root in rawroot` with one slip, named by bug:
\*   "continue": an existing parent without a match is skipped like a missing one
\*   "first":    `len(candidates) > 1` tests the wrong count, so that one of
\*               several candidates is returned
\*   "each":     the report after the loop is indented into the loop and made for
\*               every root without a parent
RECURSIVE RootLoopWith(_, _, _, _, _, _, _)
RootLoopWith(bug, s, roots, file_version, error_handling, rep, acc) ==
    LET nodir == "no raw-data directory found"
        hnodir == HandleError(nodir, error_handling,
                              "RawDataDirectoryError", "RawDataDirectoryWarning")
    IN
    IF roots = <<>>
    THEN IF bug = "each" THEN Result(None, "", <<>>, rep, acc)
         ELSE Result(None, hnodir.exc, hnodir.out, <<nodir>>, acc)
    ELSE IF file_version \notin {"v0", "v1"}
    THEN Result(None, "ValueError", <<>>, <<>>, acc)
    ELSE LET anidir == Head(roots) \o <<<<s.batch>>, <<s.animal>>>>
             cfg == IF file_version = "v0" THEN _configure_v0(anidir, s)
                                           ELSE _configure_v1(anidir, s)
             acc1 == Append(acc, AccExists(cfg.parent))
             acc2 == Append(acc1, AccGlob(cfg.parent, cfg.pat))
             candidates == Glob(cfg.parent, cfg.pat)
         IN  IF ~Exists(cfg.parent)
             THEN IF bug = "each" /\ hnodir.exc # ""
                  THEN Result(None, hnodir.exc, <<>>, Append(rep, nodir), acc1)
                  ELSE RootLoopWith(bug, s, Tail(roots), file_version, error_handling,
                                    IF bug = "each" THEN Append(rep, nodir) ELSE rep,
                                    acc1)
             ELSE IF Cardinality(candidates) = 0
             THEN IF bug = "continue"
                  THEN RootLoopWith(bug, s, Tail(roots), file_version, error_handling,
                                    rep, acc2)
                  ELSE LET msg == "no file found with pattern"
                           h == HandleError(msg, error_handling,
                                            "FileNotFoundError", "FileNotFoundWarning")
                       IN  Result(None, h.exc, h.out, <<msg>>, acc2)
             ELSE IF Cardinality(candidates) > 1 /\ bug # "first"
             THEN LET msg == "files found with pattern"
                      h == HandleError(msg, error_handling,
                                       "RawDataDirectoryError", "RawDataDirectoryWarning")
                  IN  Result(None, h.exc, h.out, <<msg>>, acc2)
             ELSE Result(CHOOSE c \in candidates : TRUE, "", <<>>, <<>>, acc2)

RootLoop_FallsThrough(s, roots, file_version, error_handling, acc) ==
    RootLoopWith("continue", s, roots, file_version, error_handling, <<>>, acc)

RootLoop_TakesFirst(s, roots, file_version, error_handling, acc) ==
    RootLoopWith("first", s, roots, file_version, error_handling, <<>>, acc)

RootLoop_ReportsEachRoot(s, roots, file_version, error_handling, acc) ==
    RootLoopWith("each", s, roots, file_version, error_handling, <<>>, acc)

\* the body of `for root in rawroot`, and the statements after the loop;
\* roots are the roots not yet tried, acc the accesses made so far
RECURSIVE RootLoop(_, _, _, _, _)
RootLoop(s, roots, file_version, error_handling, acc) ==
    IF roots = <<>>
    THEN LET msg == "no raw-data directory found"
             h == HandleError(msg, error_handling,
                              "RawDataDirectoryError", "RawDataDirectoryWarning")
         IN  Result(None, h.exc, h.out, <<msg>>, acc)
    ELSE IF file_version \notin {"v0", "v1"}
    THEN Result(None, "ValueError", <<>>, <<>>, acc)
    ELSE LET anidir == Head(roots) \o <<<<s.batch>>, <<s.animal>>>>
             cfg == IF file_version = "v0" THEN _configure_v0(anidir, s)
                                           ELSE _configure_v1(anidir, s)
             acc1 == Append(acc, AccExists(cfg.parent))
             acc2 == Append(acc1, AccGlob(cfg.parent, cfg.pat))
             candidates == Glob(cfg.parent, cfg.pat)
         IN  IF ~Exists(cfg.parent)
             THEN RootLoop(s, Tail(roots), file_version, error_handling, acc1)
             ELSE IF Cardinality(candidates) = 0
             THEN LET msg == "no file found with pattern"
                      h == HandleError(msg, error_handling,
                                       "FileNotFoundError", "FileNotFoundWarning")
                  IN  Result(None, h.exc, h.out, <<msg>>, acc2)
             ELSE IF Cardinality(candidates) > 1
             THEN LET msg == "files found with pattern"
                      h == HandleError(msg, error_handling,
                                       "RawDataDirectoryError", "RawDataDirectoryWarning")
                  IN  Result(None, h.exc, h.out, <<msg>>, acc2)
             ELSE Result(CHOOSE c \in candidates : TRUE, "", <<>>, <<>>, acc2)

\* locate_rawdata_file without its availability check
locate_rawdata_file_Unchecked(s, rawroot, file_version, error_handling, locate_without_rawdata) ==
    RootLoop(s, rawroot, file_version, error_handling, <<>>)

locate_rawdata_file(s, rawroot, file_version, error_handling, locate_without_rawdata) ==
    IF (~has_rawdata(s)) /\ (~locate_without_rawdata)
    THEN Result(None, "", <<>>, <<>>, <<>>)
    ELSE RootLoop(s, rawroot, file_version, error_handling, <<>>)

\* RawData(version, session, path); RawData.empty has path None
rawdata_from_session(s, rawroot, file_version, error_handling, locate_without_rawdata) ==
    IF (~has_rawdata(s)) /\ (~locate_without_rawdata)
    THEN Result([version |-> file_version, path |-> None], "", <<>>, <<>>, <<>>)
    ELSE LET r == locate_rawdata_file(s, rawroot, file_version, error_handling,
                                      locate_without_rawdata)
         IN  IF r.exc # "" THEN r
             ELSE Result([version |-> file_version, path |-> r.ret], "",
                         r.out, r.rep, r.acc)

----------------------------------------------------------------------------
(* videos.py *)

\* VideoFiles: one Optional[Path] per view
VideoFiles(body, face, eye) == [body |-> body, face |-> face, eye |-> eye]

EmptyVideoFiles == VideoFiles(None, None, None)

\* find_video_dir without the date level: videoroot / sessname
find_video_dir_OneLevel(s, videoroot) ==
    IF shorttype(s) # "task"
    THEN videoroot \o <<shortdate(s) \o <<"_", s.animal, "_", shorttype(s)>>>>
    ELSE videoroot \o <<shortdate(s) \o <<"_", s.animal>>>>

find_video_dir(s, videoroot) ==
    IF shorttype(s) # "task"
    THEN videoroot \o <<shortdate(s) \o <<"_", shorttype(s)>>,
                        shortdate(s) \o <<"_", s.animal, "_", shorttype(s)>>>>
    ELSE videoroot \o <<shortdate(s), shortdate(s) \o <<"_", s.animal>>>>

VideoPattern(videotype) == <<"*", "_", videotype, "_", "*", ".mp4">>

find_video_file(videodir, videotype) ==
    LET candidates == Glob(videodir, VideoPattern(videotype))
        acc1 == <<AccExists(videodir)>>
        acc2 == Append(acc1, AccGlob(videodir, VideoPattern(videotype)))
    IN  IF ~Exists(videodir) THEN Result(None, "", <<>>, <<>>, acc1)
        ELSE IF Cardinality(candidates) > 1
        THEN Result(None, "ValueError", <<>>, <<>>, acc2)
        ELSE IF Cardinality(candidates) = 0 THEN Result(None, "", <<>>, <<>>, acc2)
        ELSE Result(CHOOSE c \in candidates : TRUE, "", <<>>, <<>>, acc2)

\* the body of `for vtype, vlab in video_views().items()` and the return after it;
\* views are the views not yet done, videos the bundle built so far
RECURSIVE VideoViewLoop(_, _, _, _, _, _, _, _)
VideoViewLoop(s, videodir, views, error_handling, videos, out, rep, acc) ==
    IF views = <<>> THEN Result(videos, "", out, rep, acc)
    ELSE LET vtype == Head(views)
             f == find_video_file(videodir, ViewLabel(vtype))
             msg == "video not found"
             h == HandleError(msg, error_handling,
                              "SessionExplorationError", "SessionExplorationWarning")
         IN  IF ~has_video(s, vtype)
             THEN VideoViewLoop(s, videodir, Tail(views), error_handling,
                                [videos EXCEPT ![vtype] = None], out, rep, acc)
             ELSE IF f.exc # ""
             THEN Result(None, f.exc, out, rep, acc \o f.acc)
             ELSE IF f.ret = None
             THEN IF h.exc # ""
                  THEN Result(None, h.exc, out, Append(rep, msg), acc \o f.acc)
                  ELSE VideoViewLoop(s, videodir, Tail(views), error_handling,
                                     [videos EXCEPT ![vtype] = None],
                                     out \o h.out, Append(rep, msg), acc \o f.acc)
             ELSE IF ~Exists(f.ret)
             THEN IF h.exc # ""
                  THEN Result(None, h.exc, out, Append(rep, msg),
                              Append(acc \o f.acc, AccExists(f.ret)))
                  ELSE VideoViewLoop(s, videodir, Tail(views), error_handling,
                                     [videos EXCEPT ![vtype] = f.ret],
                                     out \o h.out, Append(rep, msg),
                                     Append(acc \o f.acc, AccExists(f.ret)))
             ELSE VideoViewLoop(s, videodir, Tail(views), error_handling,
                                [videos EXCEPT ![vtype] = f.ret], out, rep,
                                Append(acc \o f.acc, AccExists(f.ret)))

video_files_from_session(s, videoroot, force_search, error_handling) ==
    LET videodir == find_video_dir(s, videoroot)
        msg == "video directory not found"
        h == HandleError(msg, error_handling,
                         "SessionExplorationError", "SessionExplorationWarning")
    IN  IF (~force_search) /\ (~has_any_videos(s))
        THEN Result(EmptyVideoFiles, "", <<>>, <<>>, <<>>)
        ELSE IF ~Exists(videodir)
        THEN Result(IF h.exc # "" THEN None ELSE EmptyVideoFiles, h.exc, h.out,
                    <<msg>>, <<AccExists(videodir)>>)
        ELSE VideoViewLoop(s, videodir, VIDEO_VIEWS, error_handling, EmptyVideoFiles,
                           <<>>, <<>>, <<AccExists(videodir)>>)

\* VideoFiles.directory: the attribute access fails on a body of None
directory(videos) ==
    IF videos.body = None THEN [exc |-> "AttributeError", path |-> None]
    ELSE [exc |-> "", path |-> Parent(videos.body)]

\* the directory tempfile.mkdtemp(prefix='dlc_') makes
TempDir == <<<<"tmp">>, <<"dlc_", "0">>>>

\* the `for vtype` loop of copy_to_temp on filesystem F: the first failure of
\* shutil.copy ends it
RECURSIVE CopyLoop(_, _, _, _)
CopyLoop(F, self, views, videos) ==
    IF views = <<>> THEN [fs |-> F, exc |-> "", videos |-> videos]
    ELSE LET vtype == Head(views)
             video == self[vtype]
             vpath == Append(TempDir, FileName(video))
         IN  IF video = None
             THEN CopyLoop(F, self, Tail(views), [videos EXCEPT ![vtype] = None])
             ELSE IF video \notin F
             THEN [fs |-> F, exc |-> "FileNotFoundError", videos |-> videos]
             ELSE CopyLoop(F \cup {vpath}, self, Tail(views),
                           [videos EXCEPT ![vtype] = vpath])

\* VideoFiles.copy_to_temp: the filesystem it leaves, the bundle of the copies it
\* returns, the exception it raises and the failure (cause) that exception stands for
copy_to_temp(self) ==
    LET made == fs \cup {TempDir}
        copied == CopyLoop(made, self, VIDEO_VIEWS, EmptyVideoFiles)
        cause == IF directory(self).exc # "" THEN directory(self).exc ELSE copied.exc
    IN  IF cause # ""
        THEN [fs |-> RmTree(IF directory(self).exc # "" THEN made ELSE copied.fs,
                            TempDir),
              ret |-> None, exc |-> "TypeError", cause |-> cause]
        ELSE [fs |-> copied.fs, ret |-> copied.videos, exc |-> "", cause |-> ""]

----------------------------------------------------------------------------
(* dlc.py: locating the pose-estimation outputs *)

\* DLCOutputFile.empty and DLCOutputFile.from_path
DLCOutputFile(path) ==
    IF path = None THEN [directory |-> None, path |-> None]
    ELSE [directory |-> Parent(path), path |-> path]

is_available(f) == (f.directory # None) /\ (f.path # None)

\* DLCOutputFiles built from one Optional[Path] per view (__post_init__)
DLCOutputFiles(body, face, eye) ==
    [body |-> DLCOutputFile(body), face |-> DLCOutputFile(face),
     eye |-> DLCOutputFile(eye)]

has_all_files(files) ==
    \A i \in 1..Len(VIDEO_VIEWS) : is_available(files[VIDEO_VIEWS[i]])

\* find_dlc_output_dir with the suffix added for every session type
find_dlc_output_dir_AlwaysSuffix(s, dlcroot) ==
    dlcroot \o <<shortdate(s), shortdate(s) \o <<"_", s.animal, "_", shorttype(s)>>>>

find_dlc_output_dir(s, dlcroot) ==
    IF s.type # "task"
    THEN dlcroot \o <<shortdate(s), shortdate(s) \o <<"_", s.animal, "_", shorttype(s)>>>>
    ELSE dlcroot \o <<shortdate(s), shortdate(s) \o <<"_", s.animal>>>>

DlcPattern(label) == <<"*", "_", label, "_", "*", "DLC", "*", ".h5">>

find_dlc_output(dlcdir, dtype, label) ==
    LET candidates == Glob(dlcdir, DlcPattern(label))
        acc1 == <<AccGlob(dlcdir, DlcPattern(label))>>
    IN  IF Cardinality(candidates) > 1
        THEN Result(None, "ValueError", <<>>, <<>>, acc1)
        ELSE IF Cardinality(candidates) = 0 THEN Result(None, "", <<>>, <<>>, acc1)
        ELSE Result(CHOOSE c \in candidates : TRUE, "", <<>>, <<>>, acc1)

\* dlcroot maps each view to the results root of that view
dlc_output_files_from_session(s, dlcroot) ==
    LET found(dtype) == find_dlc_output(find_dlc_output_dir(s, dlcroot[dtype]),
                                        dtype, ViewLabel(dtype))
        dpath(dtype) == IF found(dtype).exc = "ValueError" THEN None
                        ELSE found(dtype).ret
    IN  Result(DLCOutputFiles(dpath("body"), dpath("face"), dpath("eye")), "", <<>>,
               <<>>, found("body").acc \o found("face").acc \o found("eye").acc)

----------------------------------------------------------------------------
(* pupil.py: locating the pupil-fit output *)

find_pupil_output_dir(s, pupilroot) ==
    IF s.type # "task"
    THEN pupilroot \o <<shortdate(s) \o <<"_", shorttype(s)>>,
                        shortdate(s) \o <<"_", s.animal, "_", shorttype(s)>>>>
    ELSE pupilroot \o <<shortdate(s), shortdate(s) \o <<"_", s.animal>>>>

PupilPattern == <<"*", "_pupilfitting", ".h5">>

Printed(msg) == [kind |-> "print", cls |-> "", msg |-> msg]

locate_pupil_file(s, pupilroot, locate_without_eyevideo) ==
    LET pupildir == find_pupil_output_dir(s, pupilroot)
        candidates == Glob(pupildir, PupilPattern)
        acc1 == <<AccExists(pupildir)>>
        acc2 == Append(acc1, AccGlob(pupildir, PupilPattern))
    IN  IF (~has_eyevideo(s)) /\ (~locate_without_eyevideo)
        THEN Result(None, "", <<>>, <<>>, <<>>)
        ELSE IF ~Exists(pupildir)
        THEN Result(None, "", <<Printed("directory does not exist")>>, <<>>, acc1)
        ELSE IF Cardinality(candidates) > 1
        THEN Result(None, "ValueError", <<>>, <<>>, acc2)
        ELSE IF Cardinality(candidates) = 0
        THEN Result(None, "", <<Printed("file with pattern not found")>>, <<>>, acc2)
        ELSE Result(CHOOSE c \in candidates : TRUE, "", <<>>, <<>>, acc2)

----------------------------------------------------------------------------
(* mesoscaler.py *)

locate_mesoscaler_file(s, mesoroot, locate_without_rawdata) ==
    LET anidir == mesoroot \o <<<<s.batch>>, <<s.animal>>>>
    IN  IF (~has_rawdata(s)) /\ (~locate_without_rawdata)
        THEN Result(None, "", <<>>, <<>>, <<>>)
        ELSE Result(Append(anidir, shortbase(s) \o <<"_mesoscaler", ".h5">>),
                    "", <<>>, <<>>, <<>>)

----------------------------------------------------------------------------
(* The sessions and filesystems the calls are tried on *)

Animal == "VG1-GC#3"

Batch == "run1"

Date0 == [cc |-> "20", yy |-> "24", mm |-> "01", dd |-> "01"]

OtherDate == [cc |-> "20", yy |-> "24", mm |-> "01", dd |-> "02"]

Availabilities == [rawdata : BOOLEAN, bodyvideo : BOOLEAN,
                   facevideo : BOOLEAN, eyevideo : BOOLEAN]

MkSession(type, avail) ==
    [batch |-> Batch, animal |-> Animal, date |-> Date0, type |-> type,
     availability |-> avail]

\* the k-th of the names that differ only where a pattern has its "*"
Variant(k) == IF k = 1 THEN <<>> ELSE <<"_", <<"a", "b", "c", "d">>[k]>>

RawRoots == {<<<<"raw1">>>>, <<<<"raw2">>>>}

\* the orders in which a caller can give some of the roots
RootSeqs ==
    {<<>>} \cup {<<r>> : r \in RawRoots}
           \cup {<<x[1], x[2]>> : x \in {y \in RawRoots \X RawRoots : y[1] # y[2]}}

Versions == {"v0", "v1", "v2"}

RawFileName(layout, date, k) ==
    LET d == [date |-> date]
    IN  <<"RawData_">> \o (IF layout = "v0" THEN shortdate(d) ELSE longdate(d))
            \o <<"_", Animal>> \o Variant(k) \o <<".h5">>

\* a raw-data tree in one layout: under root r the session's directory is absent
\* (n[r] = -1) or holds n[r] files of the session, and one of another date if other
RawTree(s, layout, n, other) ==
    UNION {
        LET anidir == r \o <<<<s.batch>>, <<s.animal>>>>
            parent == IF layout = "v0" THEN _configure_v0(anidir, s).parent
                                       ELSE _configure_v1(anidir, s).parent
        IN  IF n[r] = -1 THEN {}
            ELSE {parent}
                 \cup {Append(parent, RawFileName(layout, s.date, k)) : k \in 1..n[r]}
                 \cup (IF other THEN {Append(parent, RawFileName(layout, OtherDate, 1))}
                                ELSE {})
        : r \in RawRoots}

Views == {VIDEO_VIEWS[i] : i \in 1..Len(VIDEO_VIEWS)}

VideoRoot == <<<<"videos">>>>

VideoFileName(view, k) == <<"cam", "_", ViewLabel(view), "_", "0">> \o Variant(k) \o <<".mp4">>

\* the session's video directory holding n[view] videos of each view
VideoTree(s, n) ==
    LET videodir == find_video_dir(s, VideoRoot)
    IN  {videodir} \cup {Append(videodir, VideoFileName(v, k)) :
                            <<v, k>> \in {x \in Views \X (1..MaxMatches) : x[2] <= n[x[1]]}}

DlcRoots == [body |-> <<<<"dlc_body">>>>, face |-> <<<<"dlc_face">>>>,
             eye |-> <<<<"dlc_eye">>>>]

\* the name the pose-estimation tool gives the output of a video, by the k-th model
DlcFileName(view, k) ==
    <<"cam", "_", ViewLabel(view), "_", "0", "DLC", <<"_m1", "_m2", "_m3", "_m4">>[k], ".h5">>

\* per view, a results directory holding n[view] outputs of the session's video
DlcTree(s, n) ==
    UNION {
        LET dlcdir == find_dlc_output_dir(s, DlcRoots[v])
        IN  IF n[v] = 0 THEN {}
            ELSE {dlcdir} \cup {Append(dlcdir, DlcFileName(v, k)) : k \in 1..n[v]}
        : v \in Views}

PupilRoot == <<<<"pupil">>>>

PupilTree(s, n) ==
    LET pupildir == find_pupil_output_dir(s, PupilRoot)
    IN  IF n = -1 THEN {}
        ELSE {pupildir}
             \cup {Append(pupildir, <<"cam", "_", "Eye", "_", "0">> \o Variant(k)
                                        \o <<"_pupilfitting", ".h5">>) : k \in 1..n}

MesoRoot == <<<<"meso">>>>

MesoTree(s, present) ==
    LET anidir == MesoRoot \o <<<<s.batch>>, <<s.animal>>>>
    IN  {anidir} \cup (IF present
                       THEN {Append(anidir, shortbase(s) \o <<"_mesoscaler", ".h5">>)}
                       ELSE {})

----------------------------------------------------------------------------
(* dlc.py: ensure_dlc_output, step by step *)

\* DLCOutputFiles.replace: self gives the session only; a view not named (None)
\* goes through DLCOutputFile.from_path(None)
replace(self, body, face, eye) ==
    [body |-> DLCOutputFile(body), face |-> DLCOutputFile(face),
     eye |-> DLCOutputFile(eye)]

\* _find_results_path on filesystem F
_find_results_path(F, videopath) ==
    LET pat == Stem(videopath) \o <<"DLC", "*", ".h5">>
        candidates == {p \in F : /\ Len(p) = Len(videopath)
                                 /\ Parent(p) = Parent(videopath)
                                 /\ Match(pat, FileName(p))}
    IN  IF Cardinality(candidates) > 1 THEN [exc |-> "RuntimeError", path |-> None]
        ELSE IF Cardinality(candidates) = 0 THEN [exc |-> "", path |-> None]
        ELSE [exc |-> "", path |-> CHOOSE c \in candidates : TRUE]

Idle ==
    [pc |-> "idle", videos |-> EmptyVideoFiles, overwrite |-> FALSE,
     files |-> DLCOutputFiles(None, None, None), temp_videos |-> EmptyVideoFiles,
     view |-> 1, newly_computed |-> EmptyVideoFiles, ret |-> None, exc |-> "",
     out |-> <<>>, staged |-> FALSE, tool |-> [v \in {"body", "face", "eye"} |-> 0],
     installed |-> TRUE]

\* an exception raised before the `try` leaves the function at once
Raise(r, exc) == [r EXCEPT !.pc = "done", !.exc = exc]

\* an exception raised inside `try ... finally` without the finally clause
Unwind_SkipsFinally(r, exc) == [r EXCEPT !.pc = "done", !.exc = exc]

\* an exception raised inside `try ... finally` runs the finally clause next
Unwind(r, exc) == [r EXCEPT !.pc = "finally", !.exc = exc]

\* the call up to the `try`: the outputs are located, the tool is imported and
\* the videos are copied to a fresh temporary directory
Ensure_Start(videos, overwrite, installed) ==
    LET files == dlc_output_files_from_session(session, DlcRoots).ret
        logged == IF (~overwrite) /\ has_all_files(files)
                  THEN <<"all videos have been already analyzed">> ELSE <<>>
        r == [run EXCEPT !.videos = videos, !.overwrite = overwrite,
                         !.files = files, !.out = logged, !.installed = installed]
        temp == copy_to_temp(videos)
    IN  /\ target = "ensure" /\ run.pc = "idle"
        /\ IF ~installed
           THEN run' = Raise(r, "NotImplementedError") /\ fs' = fs
           ELSE IF temp.exc # ""
           THEN run' = Raise([r EXCEPT !.staged = TRUE], temp.exc) /\ fs' = temp.fs
           ELSE /\ run' = [r EXCEPT !.pc = "loop", !.staged = TRUE,
                                    !.temp_videos = temp.ret]
                /\ fs' = temp.fs
        /\ UNCHANGED <<session, target, call>>

\* what one run of dlc.analyze_videos does: it raises ("raise"), ends without an
\* output ("none"), or writes the output of model k beside the video
ToolOutcomes == {<<"raise", 0>>, <<"none", 0>>} \cup {<<"model", k>> : k \in 1..MaxMatches}

ToolOutput(source_video, outcome) ==
    Append(Parent(source_video),
           Stem(source_video) \o <<"DLC", <<"_m1", "_m2", "_m3", "_m4">>[outcome[2]], ".h5">>)

\* one turn of `for view in video_views().keys()`
Ensure_View(outcome) ==
    LET view == VIDEO_VIEWS[run.view]
        source_video == run.temp_videos[view]
        output_info == run.files[view]
        called == [run EXCEPT !.tool[view] = @ + 1]
        analyzed == fs \cup {ToolOutput(source_video, outcome)}
        found == _find_results_path(analyzed, source_video)
        results_file == found.path
        output_path == Append(output_info.directory, FileName(results_file))
        moved == ((analyzed \ {results_file}) \cup {output_path})
                    \cup {output_info.directory}
    IN  /\ target = "ensure" /\ run.pc = "loop" /\ run.view <= Len(VIDEO_VIEWS)
        /\ IF source_video = None
           THEN run' = [run EXCEPT !.view = @ + 1] /\ fs' = fs
           ELSE IF (~run.overwrite) /\ is_available(output_info)
           THEN /\ run' = [run EXCEPT !.view = @ + 1,
                                      !.out = Append(@, "video has been already analyzed")]
                /\ fs' = fs
           ELSE IF outcome[1] = "raise"
           THEN run' = Unwind(called, "ToolError") /\ fs' = fs
           ELSE IF outcome[1] = "none"
           THEN run' = Unwind(called, "AttributeError") /\ fs' = fs
           ELSE IF found.exc # ""
           THEN run' = Unwind(called, found.exc) /\ fs' = analyzed
           ELSE IF output_info.directory = None
           THEN run' = Unwind(called, "TypeError") /\ fs' = analyzed
           ELSE /\ run' = [called EXCEPT !.view = @ + 1,
                                         !.newly_computed[view] = output_path]
                /\ fs' = moved
        /\ UNCHANGED <<session, target, call>>

\* `return files.replace(**newly_computed)` at the end of the loop
Ensure_Return ==
    /\ target = "ensure" /\ run.pc = "loop" /\ run.view > Len(VIDEO_VIEWS)
    /\ run' = [run EXCEPT !.pc = "finally",
                          !.ret = replace(run.files, run.newly_computed.body,
                                          run.newly_computed.face,
                                          run.newly_computed.eye)]
    /\ UNCHANGED <<session, fs, target, call>>

\* `finally: shutil.rmtree(temp_videos.directory)`
Ensure_Finally ==
    /\ target = "ensure" /\ run.pc = "finally"
    /\ IF directory(run.temp_videos).exc # ""
       THEN /\ run' = [run EXCEPT !.pc = "done", !.ret = None,
                                  !.exc = directory(run.temp_videos).exc]
            /\ fs' = fs
       ELSE /\ run' = [run EXCEPT !.pc = "done"]
            /\ fs' = RmTree(fs, directory(run.temp_videos).path)
    /\ UNCHANGED <<session, target, call>>

----------------------------------------------------------------------------
(* session.py: iterate_sessions_from_root *)

\* A sessions root is given by the names of its directories (dirs), the record
\* files they hold (files, pairs of directory name and file name) and the table
\* read from each file (csv).

\* the directory names of the roots examined, in the ascending order of their
\* strings
BatchNames == << <<"old">>, <<"run", "1">>, <<"run", "2">> >>

\* sorted() of a set of directory names
RECURSIVE SortedNames(_)
SortedNames(S) ==
    IF S = {} THEN <<>>
    ELSE LET rank(n) == CHOOSE i \in 1..Len(BatchNames) : BatchNames[i] = n
             m == CHOOSE x \in S : \A y \in S : rank(x) <= rank(y)
         IN  <<m>> \o SortedNames(S \ {m})

\* int() of the digits of an animal ID
IntOf(digits) ==
    CASE digits = "1" -> 1
      [] digits = "2" -> 2
      [] digits = "10" -> 10

\* parse_animal_ID: ANIMAL_ID_PATTERN.match on the stem of the file name; the
\* stem is modelled as the strain, the "#" and the digits
parse_animal_ID(anifile) ==
    LET stem == SubSeq(anifile, 1, Len(anifile) - 1)
    IN  IF Len(stem) >= 3 /\ stem[1] = "VG1-GC" /\ stem[2] = "#"
                         /\ stem[3] \in {"1", "2", "10"}
        THEN [exc |-> "", id |-> IntOf(stem[3])]
        ELSE [exc |-> "ValueError", id |-> 0]

\* sorted(files, key=parse_animal_ID) of files whose IDs parse
RECURSIVE SortedByID(_)
SortedByID(S) ==
    IF S = {} THEN <<>>
    ELSE LET m == CHOOSE x \in S :
                    \A y \in S : parse_animal_ID(x).id <= parse_animal_ID(y).id
         IN  <<m>> \o SortedByID(S \ {m})

\* `_env.animal_strain_ID(animal_strain)`: env.py defines animal_strain_prefix
\* and no animal_strain_ID, so the attribute lookup fails
animal_strain_ID(animal_strain) == [exc |-> "AttributeError", strain |-> None]

\* `for anifile in sorted(...)`: yield from iterate_sessions_from_animal
RECURSIVE AnimalLoop(_, _, _)
AnimalLoop(root, batchdir, anifiles) ==
    IF anifiles = <<>> THEN <<>>
    ELSE LET anifile == Head(anifiles)
             animal == SubSeq(anifile, 1, Len(anifile) - 1)
         IN  iterate_sessions_from_animal(root.csv[<<batchdir, anifile>>], animal,
                                          batchdir)
                \o AnimalLoop(root, batchdir, Tail(anifiles))

\* `for batchdir in sorted(Path(sessroot).glob("run*"))`: the sessions yielded
\* and the exception that ends the generator, if any
RECURSIVE BatchLoop(_, _, _)
BatchLoop(root, batchdirs, animal_strain) ==
    IF batchdirs = <<>> THEN [ret |-> <<>>, exc |-> ""]
    ELSE LET batchdir == Head(batchdirs)
             found == {f \in {x[2] : x \in {y \in root.files : y[1] = batchdir}} :
                            Match(<<animal_strain, "*", ".csv">>, f)}
             rest == BatchLoop(root, Tail(batchdirs), animal_strain)
         IN  IF \E f \in found : parse_animal_ID(f).exc # ""
             THEN [ret |-> <<>>, exc |-> "ValueError"]
             ELSE [ret |-> AnimalLoop(root, batchdir, SortedByID(found)) \o rest.ret,
                   exc |-> rest.exc]

\* iterate_sessions_from_root, the generator run to its end
iterate_sessions_from_root(root, animal_strain) ==
    LET strain == animal_strain_ID(animal_strain)
        batchdirs == SortedNames({d \in root.dirs : Match(<<"run", "*">>, d)})
    IN  IF strain.exc # "" THEN [ret |-> <<>>, exc |-> strain.exc]
        ELSE BatchLoop(root, batchdirs, strain.strain)

----------------------------------------------------------------------------
(* find.py: iterate_sessions and its matchers *)

\* A filter is the text the caller passes, as a sequence of tokens: "," and " "
\* are tokens of their own, and a name is tokenised as in a Session.

\* ref.split(',')
RECURSIVE Split(_)
Split(ref) ==
    IF \A k \in 1..Len(ref) : ref[k] # "," THEN <<ref>>
    ELSE LET k == CHOOSE i \in 1..Len(ref) :
                    ref[i] = "," /\ \A j \in 1..(i - 1) : ref[j] # ","
         IN  <<SubSeq(ref, 1, k - 1)>> \o Split(SubSeq(ref, k + 1, Len(ref)))

\* item.strip()
RECURSIVE strip(_)
strip(item) ==
    IF item = <<>> THEN item
    ELSE IF Head(item) = " " THEN strip(Tail(item))
    ELSE IF item[Len(item)] = " " THEN strip(SubSeq(item, 1, Len(item) - 1))
    ELSE item

\* tuple(item.strip() for item in ref.split(',')), as the set `in` searches
Refs(ref) == {strip(Split(ref)[k]) : k \in 1..Len(Split(ref))}

\* matcher.animal(ref)(query)
matcher_animal(ref, query) == IF ref = None THEN TRUE ELSE query \in Refs(ref)

\* matcher.batch(ref)(query)
matcher_batch(ref, query) == IF ref = None THEN TRUE ELSE query \in Refs(ref)

\* the number two digits stand for
Num(digits) ==
    CHOOSE n \in 0..99 :
        digits = IF n < 10 THEN "0" \o ToString(n) ELSE ToString(n)

\* core.parse_date: '%Y-%m-%d' for a text with '-', else '%y%m%d', where the
\* years 69..99 are of the 1900s
parse_date(datestr) ==
    IF \E k \in 1..Len(datestr) : datestr[k] = "-"
    THEN strptime(datestr)
    ELSE [cc |-> IF Num(datestr[1]) >= 69 THEN "19" ELSE "20",
          yy |-> datestr[1], mm |-> datestr[2], dd |-> datestr[3]]

\* the order of datetime values
DateNum(d) == ((Num(d.cc) * 100 + Num(d.yy)) * 100 + Num(d.mm)) * 100 + Num(d.dd)

\* matcher.from_date(ref)(query)
matcher_from_date(ref, query) ==
    IF ref = None THEN TRUE ELSE DateNum(query) >= DateNum(parse_date(ref))

\* matcher.to_date(ref)(query)
matcher_to_date(ref, query) ==
    IF ref = None THEN TRUE ELSE DateNum(query) <= DateNum(parse_date(ref))

\* matcher.date(from_date, to_date)(query)
matcher_date(from_date, to_date, query) ==
    matcher_from_date(from_date, query) /\ matcher_to_date(to_date, query)

\* Session.LONG_TYPES
LONG_TYPES == [task |-> "task", rest |-> "resting-state", ss |-> "sensory-stim"]

\* LONG_TYPES.get(code, code)
LongTypeOf(code) == IF code \in DOMAIN LONG_TYPES THEN LONG_TYPES[code] ELSE code

\* the `norm` list of matcher.session_type: each item of the filter, a short
\* code replaced by its long type
NormTypes(ref) ==
    {IF Len(item) = 1 THEN <<LongTypeOf(item[1])>> ELSE item : item \in Refs(ref)}

\* matcher.session_type(ref): the exception building the matcher raises
session_type_exc(ref) ==
    IF ref = None THEN ""
    ELSE IF \E item \in NormTypes(ref) :
                item \notin {<<LONG_TYPES[k]>> : k \in DOMAIN LONG_TYPES}
    THEN "ValueError"
    ELSE ""

\* matcher.session_type(ref)(query)
matcher_session_type(ref, query) ==
    IF ref = None THEN TRUE ELSE <<LongTypeOf(query)>> \in NormTypes(ref)

\* iterate_sessions run to its end on a sessions root that exists or not: the
\* sessions yielded, the exception that ends it and the lines it prints
iterate_sessions(animal, batch, fromdate, todate, type, root, exists) ==
    LET _matches(sess) ==
            /\ matcher_animal(animal, sess.animal)
            /\ matcher_batch(batch, sess.batch)
            /\ matcher_date(fromdate, todate, sess.date)
            /\ matcher_session_type(type, sess.type)
        all == iterate_sessions_from_root(root, None)
    IN  IF session_type_exc(type) # ""
        THEN [ret |-> <<>>, exc |-> session_type_exc(type), out |-> <<>>]
        ELSE IF ~exists
        THEN [ret |-> <<>>, exc |-> "RuntimeError", out |-> <<"SESSIONS_ROOT_DIR">>]
        ELSE [ret |-> SelectSeq(all.ret, _matches), exc |-> all.exc,
              out |-> IF all.exc = "" /\ Len(all.ret) = 0
                      THEN <<"SESSIONS_ROOT_DIR", "no sessions found">>
                      ELSE <<"SESSIONS_ROOT_DIR">>]

----------------------------------------------------------------------------
(* pupil.py: fit_pupil and process_eye_file *)

\* the log entry of one run of the external fitting tool (pupf.fit_hdf)
AccFit(eyefile) == [op |-> "fit_hdf", path |-> eyefile, pat |-> <<>>]

\* Path.mkdir(parents=True): the directory and the ancestors it lacks
MkDirs(F, dir) == F \cup {SubSeq(dir, 1, k) : k \in 1..Len(dir)}

\* what one run of pupf.fit_hdf does: it raises, or it returns the fitted table
FitOutcomes == {"raise", "table"}

\* process_eye_file without the test `if pupf is None`
process_eye_file_ImportUnchecked(F, eyefile, pupilfile, installed, outcome) ==
    IF outcome = "raise"
    THEN [fs |-> F, res |-> Result(None, "ToolError", <<>>, <<>>, <<AccFit(eyefile)>>)]
    ELSE [fs |-> (IF Parent(pupilfile) \in F THEN F ELSE MkDirs(F, Parent(pupilfile)))
                    \cup {pupilfile},
          res |-> Result(None, "", <<>>, <<>>, <<AccFit(eyefile)>>)]

\* process_eye_file on filesystem F: the filesystem left, and the outcome. The
\* `raise RuntimeError(..., file=sys.stderr, flush=True)` for a missing package
\* fails on its keyword arguments, so the exception that leaves is a TypeError.
process_eye_file(F, eyefile, pupilfile, installed, outcome) ==
    IF ~installed
    THEN [fs |-> F, res |-> Result(None, "TypeError", <<>>, <<>>, <<>>)]
    ELSE IF outcome = "raise"
    THEN [fs |-> F, res |-> Result(None, "ToolError", <<>>, <<>>, <<AccFit(eyefile)>>)]
    ELSE [fs |-> (IF Parent(pupilfile) \in F THEN F ELSE MkDirs(F, Parent(pupilfile)))
                    \cup {pupilfile},
          res |-> Result(None, "", <<>>, <<>>, <<AccFit(eyefile)>>)]

\* fit_pupil without the test of `pupilfile.exists()`
fit_pupil_AlwaysFits(F, dlc_output, pupilfile, overwrite, installed, outcome) ==
    LET done == process_eye_file(F, dlc_output.eye, pupilfile, installed, outcome)
    IN  IF dlc_output.eye = None
        THEN [fs |-> F, res |-> Result(None, "AttributeError", <<>>, <<>>, <<>>)]
        ELSE IF done.res.exc # "" THEN done
        ELSE [fs |-> done.fs, res |-> [done.res EXCEPT !.ret = pupilfile]]

\* fit_pupil on filesystem F; dlc_output is a DLCOutputFiles
fit_pupil(F, dlc_output, pupilfile, overwrite, installed, outcome) ==
    LET done == process_eye_file(F, dlc_output.eye, pupilfile, installed, outcome)
    IN  IF dlc_output.eye = None
        THEN [fs |-> F, res |-> Result(None, "AttributeError", <<>>, <<>>, <<>>)]
        ELSE IF (~overwrite) /\ pupilfile \in F
        THEN [fs |-> F,
              res |-> Result(None, "", <<Printed("pupil already fitted")>>, <<>>, <<>>)]
        ELSE IF done.res.exc # "" THEN done
        ELSE [fs |-> done.fs, res |-> [done.res EXCEPT !.ret = pupilfile]]

----------------------------------------------------------------------------
(* The calls *)

NoCall ==
    [op |-> "none", args |-> <<>>, ret |-> None, exc |-> "", out |-> <<>>,
     rep |-> <<>>, acc |-> <<>>]

Called(op, args, r) ==
    [op |-> op, args |-> args, ret |-> r.ret, exc |-> r.exc, out |-> r.out,
     rep |-> r.rep, acc |-> r.acc]

InitRaw ==
    \E type \in SessionTypes, raw \in BOOLEAN, layout \in {"v0", "v1"},
       n \in [RawRoots -> -1..MaxMatches], other \in BOOLEAN :
        /\ target = "raw"
        /\ session = MkSession(type, [rawdata |-> raw, bodyvideo |-> FALSE,
                                      facevideo |-> FALSE, eyevideo |-> FALSE])
        /\ fs = RawTree(session, layout, n, other)

InitVideo ==
    \E type \in SessionTypes, b \in BOOLEAN, f \in BOOLEAN, e \in BOOLEAN,
       present \in BOOLEAN, n \in [Views -> 0..MaxMatches] :
        /\ target = "video"
        /\ session = MkSession(type, [rawdata |-> TRUE, bodyvideo |-> b,
                                      facevideo |-> f, eyevideo |-> e])
        /\ fs = IF present THEN VideoTree(session, n) ELSE {}

InitDlc ==
    \E type \in SessionTypes, b \in BOOLEAN, f \in BOOLEAN, e \in BOOLEAN,
       n \in [Views -> 0..MaxMatches] :
        /\ target = "dlc"
        /\ session = MkSession(type, [rawdata |-> TRUE, bodyvideo |-> b,
                                      facevideo |-> f, eyevideo |-> e])
        /\ fs = DlcTree(session, n)

InitPupil ==
    \E type \in SessionTypes, e \in BOOLEAN, n \in -1..MaxMatches :
        /\ target = "pupil"
        /\ session = MkSession(type, [rawdata |-> TRUE, bodyvideo |-> FALSE,
                                      facevideo |-> FALSE, eyevideo |-> e])
        /\ fs = PupilTree(session, n)

InitMeso ==
    \E type \in SessionTypes, raw \in BOOLEAN, present \in BOOLEAN :
        /\ target = "meso"
        /\ session = MkSession(type, [rawdata |-> raw, bodyvideo |-> FALSE,
                                      facevideo |-> FALSE, eyevideo |-> FALSE])
        /\ fs = MesoTree(session, present)

\* the defaults of the error_handling parameter of the resolvers
locate_rawdata_file_error_handling == "warn"

rawdata_from_session_error_handling == "warn"

video_files_from_session_error_handling == "warn"

\* the policies a caller passes: one of the four, or none at all
GivenPolicies == Policies \cup {Omitted}

Call_locate_rawdata_file ==
    \E rawroot \in RootSeqs, file_version \in Versions, given \in GivenPolicies,
       locate_without_rawdata \in BOOLEAN :
        LET error_handling == WithDefault(given, locate_rawdata_file_error_handling)
        IN  /\ target = "raw" /\ call = NoCall
            /\ call' = Called("locate_rawdata_file",
                              [rawroot |-> rawroot, file_version |-> file_version,
                               error_handling |-> error_handling,
                               omitted |-> given = Omitted,
                               force |-> locate_without_rawdata],
                              locate_rawdata_file(session, rawroot, file_version,
                                                  error_handling,
                                                  locate_without_rawdata))
        /\ UNCHANGED <<session, fs, target, run>>

Call_rawdata_from_session ==
    \E rawroot \in RootSeqs, file_version \in Versions, given \in GivenPolicies,
       locate_without_rawdata \in BOOLEAN :
        LET error_handling == WithDefault(given, rawdata_from_session_error_handling)
        IN  /\ target = "raw" /\ call = NoCall
            /\ call' = Called("rawdata_from_session",
                              [rawroot |-> rawroot, file_version |-> file_version,
                               error_handling |-> error_handling,
                               omitted |-> given = Omitted,
                               force |-> locate_without_rawdata],
                              rawdata_from_session(session, rawroot, file_version,
                                                   error_handling,
                                                   locate_without_rawdata))
        /\ UNCHANGED <<session, fs, target, run>>

Call_video_files_from_session ==
    \E force_search \in BOOLEAN, given \in GivenPolicies :
        LET error_handling == WithDefault(given, video_files_from_session_error_handling)
        IN  /\ target = "video" /\ call = NoCall
            /\ call' = Called("video_files_from_session",
                              [error_handling |-> error_handling,
                               omitted |-> given = Omitted, force |-> force_search],
                              video_files_from_session(session, VideoRoot,
                                                       force_search, error_handling))
        /\ UNCHANGED <<session, fs, target, run>>

Call_dlc_output_files_from_session ==
    /\ target = "dlc" /\ call = NoCall
    /\ call' = Called("dlc_output_files_from_session", [dlcroot |-> DlcRoots],
                      dlc_output_files_from_session(session, DlcRoots))
    /\ UNCHANGED <<session, fs, target, run>>

Call_locate_pupil_file ==
    \E locate_without_eyevideo \in BOOLEAN :
        /\ target = "pupil" /\ call = NoCall
        /\ call' = Called("locate_pupil_file", [force |-> locate_without_eyevideo],
                          locate_pupil_file(session, PupilRoot, locate_without_eyevideo))
        /\ UNCHANGED <<session, fs, target, run>>

Call_locate_mesoscaler_file ==
    \E locate_without_rawdata \in BOOLEAN :
        /\ target = "meso" /\ call = NoCall
        /\ call' = Called("locate_mesoscaler_file", [force |-> locate_without_rawdata],
                          locate_mesoscaler_file(session, MesoRoot,
                                                 locate_without_rawdata))
        /\ UNCHANGED <<session, fs, target, run>>

\* an output computed anew for a view: a file of the view's results directory
NewOutput(s, view) ==
    Append(find_dlc_output_dir(s, DlcRoots[view]), DlcFileName(view, 4))

\* replace is called on the bundle located for the session, each view either
\* named with a new output or left out (None)
Call_replace ==
    /\ target = "dlc" /\ call = NoCall
    /\ LET self == dlc_output_files_from_session(session, DlcRoots).ret
       IN  \E named \in SUBSET Views :
            LET arg(v) == IF v \in named THEN NewOutput(session, v) ELSE None
            IN  call' = Called("replace",
                               [self |-> self, body |-> arg("body"),
                                face |-> arg("face"), eye |-> arg("eye")],
                               Result(replace(self, arg("body"), arg("face"),
                                              arg("eye")), "", <<>>, <<>>, <<>>))
    /\ UNCHANGED <<session, fs, target, run>>

\* what handle_error is called with: a policy (one of the four, an unknown
\* one, or none), and the classes to raise and to warn with (or none)
HandleErrorArgs ==
    [msg : {"directory does not exist", "file not found"},
     type : GivenPolicies \cup {"fatal", "Warn"},
     errorcls : {Omitted, "FileNotFoundError"},
     warncls : {Omitted, "FileNotFoundWarning"}]

Call_handle_error ==
    /\ call = NoCall
    /\ \E a \in HandleErrorArgs :
          LET h == handle_error(a.msg, a.type, a.errorcls, a.warncls)
          IN  call' = Called("handle_error", a, Result(None, h.exc, h.out, <<>>, <<>>))
    /\ UNCHANGED <<session, fs, target, run>>

\* the caller has taken the outcome of the last call; the next call can start
Return ==
    /\ call # NoCall
    /\ call' = NoCall
    /\ UNCHANGED <<session, fs, target, run>>

Init ==
    /\ InitRaw \/ InitVideo \/ InitDlc \/ InitPupil \/ InitMeso
    /\ call = NoCall
    /\ run = Idle

Next ==
    \/ Call_locate_rawdata_file
    \/ Call_rawdata_from_session
    \/ Call_video_files_from_session
    \/ Call_dlc_output_files_from_session
    \/ Call_locate_pupil_file
    \/ Call_locate_mesoscaler_file
    \/ Call_handle_error
    \/ Call_replace
    \/ Return

Spec == Init /\ [][Next]_vars

\* the video of a view that the bundle handed to ensure_dlc_output names
VideoOf(s, view) == Append(find_video_dir(s, VideoRoot), VideoFileName(view, 1))

\* ensure_dlc_output: some of the videos are on disk, and each view has n[view]
\* outputs of earlier runs
InitEnsure ==
    \E type \in {"task", "resting-state"}, ondisk \in SUBSET Views,
       n \in [Views -> 0..MaxMatches] :
        /\ target = "ensure"
        /\ session = MkSession(type, [rawdata |-> TRUE, bodyvideo |-> TRUE,
                                      facevideo |-> TRUE, eyevideo |-> TRUE])
        /\ fs = {VideoOf(session, v) : v \in ondisk} \cup DlcTree(session, n)
        /\ call = NoCall
        /\ run = Idle

NextEnsure ==
    \/ \E given \in SUBSET Views, overwrite \in BOOLEAN, installed \in BOOLEAN :
            Ensure_Start([v \in Views |-> IF v \in given THEN VideoOf(session, v)
                                                        ELSE None],
                         overwrite, installed)
    \/ \E outcome \in ToolOutcomes : Ensure_View(outcome)
    \/ Ensure_Return
    \/ Ensure_Finally

SpecEnsure == InitEnsure /\ [][NextEnsure]_vars

\* the target of the pupil fitting and the eye output it is fitted to
PupilFile ==
    Append(find_pupil_output_dir(session, PupilRoot),
           <<"cam", "_", "Eye", "_", "0", "_pupilfitting", ".h5">>)

EyeOutput == Append(find_dlc_output_dir(session, DlcRoots["eye"]), DlcFileName("eye", 1))

\* pupil fitting: the eye output may be on disk, and of the target there is
\* nothing, its directory only, or the file of an earlier fit
InitFit ==
    \E type \in SessionTypes, eye \in BOOLEAN, there \in 0..2 :
        /\ target = "fit"
        /\ session = MkSession(type, [rawdata |-> TRUE, bodyvideo |-> FALSE,
                                      facevideo |-> FALSE, eyevideo |-> TRUE])
        /\ fs = (IF eye THEN MkDirs({EyeOutput}, Parent(EyeOutput)) ELSE {})
                    \cup (IF there >= 1 THEN MkDirs({}, Parent(PupilFile)) ELSE {})
                    \cup (IF there = 2 THEN {PupilFile} ELSE {})
        /\ call = NoCall
        /\ run = Idle

Call_fit_pupil ==
    \E overwrite \in BOOLEAN, installed \in BOOLEAN, outcome \in FitOutcomes :
        LET dlc_output == dlc_output_files_from_session(session, DlcRoots).ret
            r == fit_pupil(fs, dlc_output, PupilFile, overwrite, installed, outcome)
        IN  /\ target = "fit" /\ call = NoCall
            /\ call' = Called("fit_pupil",
                              [overwrite |-> overwrite, installed |-> installed,
                               outcome |-> outcome, eyefile |-> dlc_output.eye,
                               before |-> fs], r.res)
            /\ fs' = r.fs
            /\ UNCHANGED <<session, target, run>>

Call_process_eye_file ==
    \E installed \in BOOLEAN, outcome \in FitOutcomes :
        LET r == process_eye_file(fs, EyeOutput, PupilFile, installed, outcome)
        IN  /\ target = "fit" /\ call = NoCall
            /\ call' = Called("process_eye_file",
                              [installed |-> installed, outcome |-> outcome,
                               eyefile |-> EyeOutput, before |-> fs], r.res)
            /\ fs' = r.fs
            /\ UNCHANGED <<session, target, run>>

NextFit ==
    \/ Call_fit_pupil
    \/ Call_process_eye_file
    \/ Return

\* the tag that the Description of the k-th row of a table starts with
RowTag(k) == <<"r1", "r2", "r3", "r4", "r5">>[k]

\* the record tables of one animal: up to MaxRows rows, each with one of the
\* dates and a count of raw-data files; the first row is of either session type
\* or has its Type cell empty, and may carry a comment after its description
Tables ==
    UNION {
        {[k \in 1..n |->
            [Date |-> f[k].Date, Type |-> IF k = 1 THEN type ELSE "task", Day |-> k,
             Data |-> f[k].Data, Body |-> 1, Face |-> 0, Eye |-> 1,
             Description |-> IF k = 1 /\ note
                             THEN <<RowTag(k), ";", "note">> ELSE <<RowTag(k)>>]]
            : f \in [1..n -> [Date : {TableDates[i] : i \in 1..Len(TableDates)},
                              Data : -1..1]],
              type \in {"task", "resting-state", NaN}, note \in BOOLEAN}
        : n \in 0..MaxRows}

InitRegistry ==
    /\ target = "registry"
    /\ session = MkSession("task", [rawdata |-> TRUE, bodyvideo |-> TRUE,
                                    facevideo |-> TRUE, eyevideo |-> TRUE])
    /\ fs = {}
    /\ call = NoCall
    /\ run = Idle

Call_iterate_sessions_from_animal ==
    /\ target = "registry" /\ call = NoCall
    /\ \E records \in Tables :
            call' = Called("iterate_sessions_from_animal",
                           [records |-> records, animal |-> Animal, batch |-> Batch],
                           Result(iterate_sessions_from_animal(records, Animal, Batch),
                                  "", <<>>, <<>>, <<>>))
    /\ UNCHANGED <<session, fs, target, run>>

\* the record files a batch directory can hold: two animals, and a file of the
\* strain that is not the record of an animal
AnimalFiles ==
    {<<"VG1-GC", "#", "2", ".csv">>, <<"VG1-GC", "#", "10", ".csv">>,
     <<"VG1-GC", "_notes", ".csv">>}

\* the table of a record file: one session, and a second one of the other date
\* for animal #10
TableOf(anifile) ==
    LET row(k, date) ==
            [Date |-> TableDates[date], Type |-> IF k = 1 THEN "task" ELSE "resting-state",
             Day |-> k, Data |-> 1, Body |-> 1, Face |-> 0, Eye |-> 1,
             Description |-> <<RowTag(k)>>]
    IN  IF anifile[3] = "10" THEN <<row(1, 2), row(2, 1)>> ELSE <<row(1, 1)>>

\* the sessions roots examined: any record files in any of the directories
SessionRoots ==
    {[dirs |-> {x[1] : x \in files}, files |-> files,
      csv |-> [x \in files |-> TableOf(x[2])]]
        : files \in SUBSET ({BatchNames[i] : i \in 1..Len(BatchNames)} \X AnimalFiles)}

Call_iterate_sessions_from_root ==
    /\ target = "registry" /\ call = NoCall
    /\ \E root \in SessionRoots :
        LET r == iterate_sessions_from_root(root, "VG1-GC")
        IN  call' = Called("iterate_sessions_from_root",
                           [root |-> root, animal_strain |-> "VG1-GC"],
                           Result(r.ret, r.exc, <<>>, <<>>, <<>>))
    /\ UNCHANGED <<session, fs, target, run>>

\* the filters a caller passes to iterate_sessions; None for a filter left out
AnimalFilters ==
    {None, <<"VG1-GC", "#", "2">>,
     <<"VG1-GC", "#", "10", ",", " ", "VG1-GC", "#", "2">>}

BatchFilters == {None, <<"run", "2">>}

FromDates == {None, <<"20", "24", "-", "01", "-", "02">>}

ToDates == {None, <<"24", "01", "01">>}

TypeFilters == {None, <<"rest">>, <<"task", ",", " ", "resting-state">>, <<"resting">>}

Call_iterate_sessions ==
    /\ target = "registry" /\ call = NoCall
    /\ \E animal \in AnimalFilters, batch \in BatchFilters, fromdate \in FromDates,
          todate \in ToDates, type \in TypeFilters, root \in SessionRoots,
          exists \in BOOLEAN :
        LET r == iterate_sessions(animal, batch, fromdate, todate, type, root, exists)
        IN  /\ exists \/ root.files = {}
            /\ call' = Called("iterate_sessions",
                            [animal |-> animal, batch |-> batch, fromdate |-> fromdate,
                             todate |-> todate, type |-> type, root |-> root,
                             exists |-> exists],
                            Result(r.ret, r.exc, r.out, <<>>, <<>>))
    /\ UNCHANGED <<session, fs, target, run>>

NextRegistry ==
    \/ Call_iterate_sessions_from_animal
    \/ Call_iterate_sessions_from_root
    \/ Call_iterate_sessions
    \/ Return

\* the session registry: the sessions of a record table
SpecRegistry == InitRegistry /\ [][NextRegistry]_vars

\* the two adapters of external tools: ensure_dlc_output and the pupil fitting
InitTools == InitEnsure \/ InitFit

NextTools == NextEnsure \/ NextFit

SpecTools == InitTools /\ [][NextTools]_vars

----------------------------------------------------------------------------
(* Properties of the resolvers *)

\* the version-dependent parent directory of the session under a root, and the
\* pattern searched in it
RawParent(root, file_version) ==
    LET anidir == root \o <<<<session.batch>>, <<session.animal>>>>
    IN  IF file_version = "v0" THEN _configure_v0(anidir, session).parent
                               ELSE _configure_v1(anidir, session).parent

RawPattern(file_version) ==
    IF file_version = "v0" THEN _configure_v0(<<>>, session).pat
                           ELSE _configure_v1(<<>>, session).pat

\* the place in roots of the first root whose parent directory exists, 0 if none
FirstExisting(roots, file_version) ==
    IF \E i \in 1..Len(roots) : Exists(RawParent(roots[i], file_version))
    THEN CHOOSE i \in 1..Len(roots) :
            /\ Exists(RawParent(roots[i], file_version))
            /\ \A j \in 1..(i - 1) : ~Exists(RawParent(roots[j], file_version))
    ELSE 0

\* locate_rawdata_file was called and went on to search the roots
RawSearched ==
    /\ call.op = "locate_rawdata_file"
    /\ has_rawdata(session) \/ call.args.force
    /\ call.args.file_version \in {"v0", "v1"}

\* what the first root with an existing parent directory holds for the pattern
DecidingMatches ==
    LET i == FirstExisting(call.args.rawroot, call.args.file_version)
    IN  Glob(RawParent(call.args.rawroot[i], call.args.file_version),
             RawPattern(call.args.file_version))

\* C1: locate_rawdata_file examines the roots in the given order, and the first
\* root whose parent directory exists decides the outcome: the search stops
\* there, no match in it means "not found" and no file, and no file of a later
\* root is ever returned.
C1_FirstExistingRootDecides ==
    LET roots == call.args.rawroot
        ver == call.args.file_version
        i == FirstExisting(roots, ver)
    IN  (RawSearched /\ i > 0) =>
            /\ call.acc = [j \in 1..i |-> AccExists(RawParent(roots[j], ver))]
                            \o <<AccGlob(RawParent(roots[i], ver), RawPattern(ver))>>
            /\ call.ret # None => call.ret \in DecidingMatches
            /\ DecidingMatches = {} =>
                    call.ret = None /\ call.rep = <<"no file found with pattern">>
            /\ \A j \in (i + 1)..Len(roots) :
                    call.ret \notin Glob(RawParent(roots[j], ver), RawPattern(ver))

\* an existing but empty parent under the first root, the file under the second
C1_Witness ==
    /\ RawSearched
    /\ Len(call.args.rawroot) = 2
    /\ FirstExisting(call.args.rawroot, call.args.file_version) = 1
    /\ DecidingMatches = {}
    /\ Cardinality(Glob(RawParent(call.args.rawroot[2], call.args.file_version),
                        RawPattern(call.args.file_version))) = 1
    /\ call.ret = None

\* C2: with raw data available, an existing parent directory without a match
\* makes locate_rawdata_file raise under 'error', return None with exactly one
\* warning under 'warn', and return None with nothing written or raised under
\* 'ignore'.
C2_ZeroMatchesByPolicy ==
    (/\ RawSearched
     /\ has_rawdata(session)
     /\ FirstExisting(call.args.rawroot, call.args.file_version) > 0
     /\ DecidingMatches = {}) =>
        /\ call.args.error_handling = "error" => call.exc = "FileNotFoundError"
        /\ call.args.error_handling = "warn" =>
                /\ call.ret = None /\ call.exc = ""
                /\ Len(call.out) = 1 /\ call.out[1].kind = "warn"
        /\ call.args.error_handling = "ignore" =>
                call.ret = None /\ call.exc = "" /\ call.out = <<>>

C2_Witness ==
    /\ RawSearched
    /\ has_rawdata(session)
    /\ FirstExisting(call.args.rawroot, call.args.file_version) > 0
    /\ DecidingMatches = {}
    /\ call.args.error_handling = "warn"
    /\ Len(call.out) = 1

\* C3: with two or more matches in the deciding parent directory
\* locate_rawdata_file never returns a candidate: it reports the ambiguous
\* condition and returns None, or raises under 'error'; the policies differ only
\* in what is written or raised.
C3_SeveralMatchesAreAmbiguous ==
    (/\ RawSearched
     /\ FirstExisting(call.args.rawroot, call.args.file_version) > 0
     /\ Cardinality(DecidingMatches) >= 2) =>
        /\ call.ret = None
        /\ call.rep = <<"files found with pattern">>
        /\ call.exc = IF call.args.error_handling = "error"
                      THEN "RawDataDirectoryError" ELSE ""

C3_Witness ==
    /\ RawSearched
    /\ FirstExisting(call.args.rawroot, call.args.file_version) > 0
    /\ Cardinality(DecidingMatches) >= 2
    /\ call.args.error_handling = "ignore"
    /\ call.ret = None

\* C4: when no root holds the session's parent directory, locate_rawdata_file
\* tries every root, globs nowhere, hands the "no raw-data directory" condition
\* to the error policy exactly once, and returns None or (under 'error') raises
\* RawDataDirectoryError.
C4_NoParentUnderAnyRoot ==
    (/\ RawSearched
     /\ FirstExisting(call.args.rawroot, call.args.file_version) = 0) =>
        /\ call.acc = [j \in 1..Len(call.args.rawroot) |->
                        AccExists(RawParent(call.args.rawroot[j],
                                            call.args.file_version))]
        /\ call.rep = <<"no raw-data directory found">>
        /\ call.ret = None
        /\ call.exc = IF call.args.error_handling = "error"
                      THEN "RawDataDirectoryError" ELSE ""
        /\ call.args.error_handling = "ignore" => call.out = <<>>
        /\ call.args.error_handling \in {"message", "warn"} => Len(call.out) = 1

\* two roots tried, the data lying in the other layout, policy 'error'
C4_Witness ==
    /\ RawSearched
    /\ FirstExisting(call.args.rawroot, call.args.file_version) = 0
    /\ Len(call.args.rawroot) = 2
    /\ fs # {}
    /\ call.exc = "RawDataDirectoryError"

\* the call made no filesystem access, handed nothing to the error policy, wrote
\* and raised nothing
Untouched == call.acc = <<>> /\ call.rep = <<>> /\ call.out = <<>> /\ call.exc = ""

\* C5: for a session whose availability flag for the modality is false, and
\* without the force option, the raw-data, video, pupil and mesoscaler resolvers
\* return "no file" without any filesystem access and without the error policy.
C5_UnavailableSkipsFilesystem ==
    /\ (call.op = "locate_rawdata_file" /\ ~has_rawdata(session) /\ ~call.args.force)
            => (call.ret = None /\ Untouched)
    /\ (call.op = "rawdata_from_session" /\ ~has_rawdata(session) /\ ~call.args.force)
            => (Untouched /\ call.ret.path = None)
    /\ (call.op = "video_files_from_session" /\ ~has_any_videos(session)
            /\ ~call.args.force)
            => (Untouched /\ call.ret = EmptyVideoFiles)
    /\ (call.op = "locate_pupil_file" /\ ~has_eyevideo(session) /\ ~call.args.force)
            => (call.ret = None /\ Untouched)
    /\ (call.op = "locate_mesoscaler_file" /\ ~has_rawdata(session)
            /\ ~call.args.force)
            => (call.ret = None /\ Untouched)

\* the file is there, the session is flagged as having no raw data
C5_Witness ==
    /\ call.op = "locate_rawdata_file" /\ ~has_rawdata(session) /\ ~call.args.force
    /\ Len(call.args.rawroot) = 2
    /\ call.args.file_version \in {"v0", "v1"}
    /\ \E i \in 1..2 :
            Glob(RawParent(call.args.rawroot[i], call.args.file_version),
                 RawPattern(call.args.file_version)) # {}
    /\ call.ret = None

\* C6: every path a resolver reports as located exists on the filesystem, and a
\* resolver reports at most one path per modality and view.
C6_LocatedPathsExist ==
    /\ (call.op \in {"locate_rawdata_file", "locate_pupil_file",
                     "locate_mesoscaler_file"} /\ call.exc = "" /\ call.ret # None)
            => Exists(call.ret)
    /\ (call.op = "rawdata_from_session" /\ call.exc = "" /\ call.ret.path # None)
            => Exists(call.ret.path)
    /\ (call.op = "video_files_from_session" /\ call.exc = "")
            => \A v \in Views : call.ret[v] # None => Exists(call.ret[v])
    /\ (call.op = "dlc_output_files_from_session" /\ call.exc = "")
            => \A v \in Views : call.ret[v].path # None => Exists(call.ret[v].path)

\* C7: under 'ignore', 'message' and 'warn', video_files_from_session does not
\* raise when the session directory holds two or more videos of an available
\* view: the ambiguity goes through the policy and the view comes back empty.
C7_VideoAmbiguityFollowsPolicy ==
    LET videodir == find_video_dir(session, VideoRoot)
        ambiguous == {v \in Views :
                        /\ has_video(session, v)
                        /\ Cardinality(Glob(videodir, VideoPattern(ViewLabel(v)))) >= 2}
    IN  (/\ call.op = "video_files_from_session"
         /\ call.args.error_handling \in {"ignore", "message", "warn"}
         /\ ambiguous # {}) =>
            /\ call.exc = ""
            /\ \A v \in ambiguous : call.ret[v] = None

----------------------------------------------------------------------------
(* Properties of ensure_dlc_output *)

\* C8: the temporary staging directory that ensure_dlc_output creates no longer
\* exists when the call has ended, however it ended: by the return, after views
\* were skipped, or by an exception of the tool or of the relocation at any view.
C8_StagingDirectoryRemoved ==
    run.pc = "done" => \A p \in fs : ~IsUnder(TempDir, p)

\* the tool raised at the second view, after the first view was analysed
C8_Witness ==
    /\ run.pc = "done" /\ run.staged
    /\ run.exc = "ToolError" /\ run.view = 2
    /\ run.tool["body"] = 1 /\ run.tool["face"] = 1

\* the call has ended without a failure of its surroundings: the tool is
\* installed, every video handed in was on disk, and every run of the tool
\* ended with an output
ToolWorked ==
    /\ run.pc = "done" /\ run.staged
    /\ \A v \in Views : run.videos[v] # None => Exists(run.videos[v])
    /\ run.exc \notin {"ToolError", "AttributeError"}

\* C9: ensure_dlc_output runs the tool exactly once for each view whose video is
\* present and whose output is not located or is to be overwritten, and not at
\* all for any other view.
C9_ToolOncePerViewToDo ==
    ToolWorked =>
        \A v \in Views :
            run.tool[v] = IF /\ run.videos[v] # None
                             /\ run.overwrite \/ ~is_available(run.files[v])
                          THEN 1 ELSE 0

\* C10: in the DLCOutputFiles that ensure_dlc_output returns, a view computed
\* in this call points to its new output and every other view keeps the output
\* located before; without overwrite and with all outputs present the bundle
\* returned is the one located before.
C10_ReturnMergesOutputs ==
    (run.pc = "done" /\ run.exc = "") =>
        \A v \in Views :
            run.ret[v] = IF run.newly_computed[v] # None
                         THEN DLCOutputFile(run.newly_computed[v])
                         ELSE run.files[v]

\* C11: when the tool has run with success for a view whose video is present
\* and whose output was not located before, the call ends without error and the
\* result file lies in the session's output directory of that view,
\* <dlcroot>/<shortdate>/<shortdate>_<animal>[_<shorttype>].
C11_ResultMovedToOutputDir ==
    (ToolWorked /\ \E v \in Views : run.tool[v] > 0 /\ ~is_available(run.files[v])) =>
        /\ run.exc = ""
        /\ \A v \in Views :
            (run.tool[v] > 0 /\ ~is_available(run.files[v])) =>
                /\ run.newly_computed[v] \in fs
                /\ Parent(run.newly_computed[v]) = find_dlc_output_dir(session, DlcRoots[v])

----------------------------------------------------------------------------
(* Properties of the adapters of external tools *)

\* C12: without the optional external tool, ensure_dlc_output and
\* process_eye_file raise, whatever else they are given, and ensure_dlc_output
\* raises before it has made a staging directory or copied a video.
C12_MissingToolAlwaysRaises ==
    [][/\ (run.pc = "idle" /\ run'.pc # "idle" /\ ~run'.installed) =>
            /\ run'.pc = "done" /\ run'.exc = "NotImplementedError"
            /\ ~run'.staged /\ fs' = fs
       /\ (call'.op = "process_eye_file" /\ ~call'.args.installed) =>
            call'.exc # "" /\ fs' = fs]_vars

\* the call was given videos that are on disk and the tool was not installed
C12_Witness ==
    /\ run.pc = "done" /\ ~run.installed /\ run.exc = "NotImplementedError"
    /\ \A v \in Views : run.videos[v] # None /\ Exists(run.videos[v])

----------------------------------------------------------------------------
(* Properties of the resolvers, continued *)

\* the session directory of the videos of a task session, as the table of
\* directory conventions gives it: <videoroot>/<shortdate>/<shortdate>_<animal>
TaskVideoDir ==
    VideoRoot \o <<<<session.date.yy, session.date.mm, session.date.dd>>,
                   <<session.date.yy, session.date.mm, session.date.dd, "_",
                     session.animal>>>>

\* C13: for a task session, a bundle returned by video_files_from_session holds,
\* for a view flagged available whose pattern has exactly one match in
\* <videoroot>/<shortdate>/<shortdate>_<animal>, that very path; when the
\* directory does not exist the bundle is empty and, under 'warn', exactly one
\* warning is given.
C13_VideoScenario ==
    (call.op = "video_files_from_session" /\ session.type = "task") =>
        /\ \A v \in Views :
            LET found == {p \in fs : /\ Parent(p) = TaskVideoDir
                                     /\ Match(<<"*", "_", ViewLabel(v), "_", "*", ".mp4">>,
                                              FileName(p))}
            IN  (has_video(session, v) /\ Cardinality(found) = 1 /\ call.exc = "") =>
                    call.ret[v] \in found
        /\ (TaskVideoDir \notin fs /\ has_any_videos(session)
                /\ call.args.error_handling # "error") =>
            /\ call.exc = "" /\ call.ret = EmptyVideoFiles
            /\ call.args.error_handling = "warn" =>
                    /\ Len(call.out) = 1 /\ call.out[1].kind = "warn"

\* the eye video alone is flagged and is the one match; the call returned
C13_Witness ==
    /\ call.op = "video_files_from_session" /\ session.type = "task"
    /\ call.exc = "" /\ call.args.error_handling = "warn"
    /\ has_video(session, "eye") /\ ~has_video(session, "body")
    /\ Cardinality(Glob(TaskVideoDir, VideoPattern("Eye"))) = 1
    /\ call.ret["eye"] \in fs

\* C14: forced resolution resolves a modality whose availability flag is false:
\* video_files_from_session(force_search=True) returns the one video on disk
\* of a view that is not flagged, and locate_rawdata_file with
\* locate_without_rawdata=True gives for a session without the raw-data flag
\* what it gives for the same session with the flag.
C14_ForcedResolution ==
    /\ (call.op = "video_files_from_session" /\ call.args.force /\ call.exc = "") =>
            \A v \in Views :
                LET found == Glob(find_video_dir(session, VideoRoot),
                                  VideoPattern(ViewLabel(v)))
                IN  (~has_video(session, v) /\ Cardinality(found) = 1) =>
                        call.ret[v] \in found
    /\ (call.op = "locate_rawdata_file" /\ call.args.force /\ ~has_rawdata(session)) =>
            LET flagged == [session EXCEPT !.availability.rawdata = TRUE]
                r == locate_rawdata_file(flagged, call.args.rawroot,
                                         call.args.file_version,
                                         call.args.error_handling, FALSE)
            IN  /\ call.ret = r.ret /\ call.exc = r.exc
                /\ call.out = r.out /\ call.acc = r.acc

\* C15: dlc_output_files_from_session does not resolve a view whose video
\* availability flag is false: the view comes back not located and its results
\* directory is not globbed.
C15_UnflaggedViewNotResolved ==
    call.op = "dlc_output_files_from_session" =>
        \A v \in Views :
            ~has_video(session, v) =>
                /\ ~is_available(call.ret[v])
                /\ \A i \in 1..Len(call.acc) :
                        call.acc[i].path # find_dlc_output_dir(session, DlcRoots[v])

\* the raw-data directory and pattern of the table of conventions:
\*   v1  <root>/<batch>/<animal>/<shorttype>                 RawData_<longdate>_<animal>*.h5
\*   v0  <root>/<batch>/<animal>/<CamelLongType>/<shortdate>  RawData_<shortdate>_<animal>*.h5
TableRawParent(root, ver) ==
    LET camel == CASE session.type = "task" -> "Task"
                   [] session.type = "resting-state" -> "Resting_state"
                   [] session.type = "sensory-stim" -> "Sensory_stim"
    IN  IF ver = "v1"
        THEN root \o <<<<session.batch>>, <<session.animal>>, <<shorttype(session)>>>>
        ELSE root \o <<<<session.batch>>, <<session.animal>>, <<camel>>,
                       shortdate(session)>>

TableRawPattern(ver) ==
    IF ver = "v1"
    THEN <<"RawData_">> \o longdate(session) \o <<"_", session.animal, "*", ".h5">>
    ELSE <<"RawData_">> \o shortdate(session) \o <<"_", session.animal, "*", ".h5">>

\* C16: a locate_rawdata_file that searches its roots looks, for versions v0 and
\* v1, at the directory of the table under a root and nowhere else, globs it for
\* the pattern of the table and no other, and returns only a match of that
\* pattern in that directory; for any other version tag it raises ValueError.
C16_RawDataLayout ==
    LET roots == call.args.rawroot
        ver == call.args.file_version
    IN  (/\ call.op = "locate_rawdata_file"
         /\ has_rawdata(session) \/ call.args.force
         /\ Len(roots) >= 1) =>
            IF ver \in {"v0", "v1"}
            THEN /\ Len(call.acc) >= 1
                 /\ \A k \in 1..Len(call.acc) :
                        /\ \E i \in 1..Len(roots) :
                                call.acc[k].path = TableRawParent(roots[i], ver)
                        /\ call.acc[k].op = "glob" =>
                                call.acc[k].pat = TableRawPattern(ver)
                 /\ call.ret # None =>
                        \E i \in 1..Len(roots) :
                            /\ Parent(call.ret) = TableRawParent(roots[i], ver)
                            /\ Match(TableRawPattern(ver), FileName(call.ret))
            ELSE call.exc = "ValueError"

\* a resting-state session in the v1 layout, found under the one root given
C16_Witness ==
    /\ call.op = "locate_rawdata_file" /\ session.type = "resting-state"
    /\ call.args.file_version = "v1" /\ Len(call.args.rawroot) = 1
    /\ call.ret # None /\ call.ret \in fs
    /\ Parent(call.ret) = TableRawParent(call.args.rawroot[1], "v1")

\* the name ends with the suffix _<shorttype> of the session
HasTypeSuffix(name) ==
    /\ Len(name) >= 2
    /\ SubSeq(name, Len(name) - 1, Len(name)) = <<"_", shorttype(session)>>

\* the directories that the last call looked at or globbed
Accessed == {call.acc[i].path : i \in 1..Len(call.acc)}

\* C17: the suffix _<shorttype> is in Session.shortbase, in both levels of the
\* video directory and in the session level of the pose-estimation output
\* directory exactly when the session type is not 'task', for each of the three
\* types; the directories the resolvers look at follow the same rule.
C17_ShortTypeSuffix ==
    LET suffixed == session.type # "task"
        videodir == find_video_dir(session, VideoRoot)
    IN  /\ HasTypeSuffix(shortbase(session)) <=> suffixed
        /\ HasTypeSuffix(videodir[Len(videodir)]) <=> suffixed
        /\ HasTypeSuffix(videodir[Len(videodir) - 1]) <=> suffixed
        /\ \A v \in Views :
            LET dlcdir == find_dlc_output_dir(session, DlcRoots[v])
            IN  HasTypeSuffix(dlcdir[Len(dlcdir)]) <=> suffixed
        /\ call.op \in {"video_files_from_session", "dlc_output_files_from_session"} =>
            \A d \in Accessed :
                LET dir == IF d \in fs /\ Match(<<"*", ".mp4">>, FileName(d))
                           THEN Parent(d) ELSE d
                IN  HasTypeSuffix(dir[Len(dir)]) <=> suffixed

\* the pose-estimation outputs of a sensory-stim session were looked up
C17_Witness ==
    /\ call.op = "dlc_output_files_from_session" /\ session.type = "sensory-stim"
    /\ \E p \in Accessed : HasTypeSuffix(p[Len(p)])
    /\ \E v \in Views : is_available(call.ret[v])

\* C18: for every session type the pupil-fit resolver looks for *_pupilfitting.h5
\* in <pupilroot>/<shortdate>_<animal>, a directory directly under the root.
C18_PupilDirUnderRoot ==
    LET tabledir == Append(PupilRoot, shortdate(session) \o <<"_", session.animal>>)
    IN  (/\ call.op = "locate_pupil_file"
         /\ has_eyevideo(session) \/ call.args.force) =>
            /\ Len(call.acc) >= 1
            /\ \A i \in 1..Len(call.acc) :
                    /\ call.acc[i].path = tabledir
                    /\ call.acc[i].op = "glob" =>
                            call.acc[i].pat = <<"*", "_pupilfitting", ".h5">>
            /\ call.ret # None => Parent(call.ret) = tabledir

----------------------------------------------------------------------------
(* Properties of the session registry *)

\* C20: every row of a record table yields exactly one Session, and the n rows
\* that share a date get the sessionindex values 1..n in the order of the rows
\* of the table.
C20_SessionIndexPerDate ==
    call.op = "iterate_sessions_from_animal" =>
        LET rows == call.args.records
            yielded == call.ret
        IN  /\ Len(yielded) = Len(rows)
            /\ \A k \in 1..Len(rows) :
                LET of == {j \in 1..Len(yielded) : yielded[j].description = <<RowTag(k)>>}
                    s == yielded[CHOOSE j \in of : TRUE]
                IN  /\ Cardinality(of) = 1
                    /\ longdate(s) = rows[k].Date
                    /\ s.sessionindex =
                            Cardinality({j \in 1..k : rows[j].Date = rows[k].Date})

\* three rows, the second of another date than the first and the third
C20_Witness ==
    /\ call.op = "iterate_sessions_from_animal"
    /\ Len(call.args.records) = 3
    /\ call.args.records[1].Date = call.args.records[3].Date
    /\ call.args.records[1].Date # call.args.records[2].Date
    /\ \E j \in 1..Len(call.ret) :
            call.ret[j].description = <<RowTag(3)>> /\ call.ret[j].sessionindex = 2

\* the record files of a root that are the record of an animal: in a directory
\* whose name starts with 'run', and named by the animal-ID pattern
AnimalRecords(root) ==
    {x \in root.files :
        /\ x[1][1] = "run"
        /\ Len(x[2]) = 4 /\ x[2][1] = "VG1-GC" /\ x[2][2] = "#" /\ x[2][4] = ".csv"}

\* C21: iterate_sessions_from_root yields the sessions of the record files that
\* match the animal-ID pattern in the directories named run*, and of no other
\* file; the sessions of one batch come together, and within a batch those of
\* one animal come together, the animals in ascending order of their numeric ID.
C21_RootEnumerationOrder ==
    call.op = "iterate_sessions_from_root" =>
        LET root == call.args.root
            yielded == call.ret
            from(i) == <<yielded[i].batch, yielded[i].animal \o <<".csv">>>>
            id(i) == IF yielded[i].animal[3] = "10" THEN 10 ELSE 2
        IN  /\ \A x \in AnimalRecords(root) :
                    Cardinality({i \in 1..Len(yielded) : from(i) = x})
                        = Len(root.csv[x])
            /\ \A i \in 1..Len(yielded) : from(i) \in AnimalRecords(root)
            /\ \A i, j, k \in 1..Len(yielded) :
                    (i < j /\ j < k /\ yielded[i].batch = yielded[k].batch) =>
                        yielded[j].batch = yielded[i].batch
            /\ \A i, j \in 1..Len(yielded) :
                    (i < j /\ yielded[i].batch = yielded[j].batch) => id(i) <= id(j)

\* the Session that the last call of iterate_sessions_from_animal yielded for
\* the k-th row of its table
SessionOfRow(k) ==
    call.ret[CHOOSE j \in 1..Len(call.ret) : call.ret[j].description = <<RowTag(k)>>]

\* C22 as claimed: each of the four availability flags of the Session of a row
\* is true exactly when the count of the row is >= 0, so that 0 means present.
C22_FlagIffCountNonNegative ==
    call.op = "iterate_sessions_from_animal" =>
        \A k \in 1..Len(call.args.records) :
            LET row == call.args.records[k]
                avail == SessionOfRow(k).availability
            IN  /\ avail.rawdata <=> row.Data >= 0
                /\ avail.bodyvideo <=> row.Body >= 0
                /\ avail.facevideo <=> row.Face >= 0
                /\ avail.eyevideo <=> row.Eye >= 0

\* C22 as amended: each of the four availability flags of the Session of a row
\* is true exactly when the count of the row is > 0; a count of 0 means absent.
C22_FlagIffCountPositive ==
    call.op = "iterate_sessions_from_animal" =>
        \A k \in 1..Len(call.args.records) :
            LET row == call.args.records[k]
                avail == SessionOfRow(k).availability
            IN  /\ avail.rawdata <=> row.Data > 0
                /\ avail.bodyvideo <=> row.Body > 0
                /\ avail.facevideo <=> row.Face > 0
                /\ avail.eyevideo <=> row.Eye > 0

\* a row with a count of 0 raw-data files and one with a positive count
C22_Witness ==
    /\ call.op = "iterate_sessions_from_animal" /\ Len(call.args.records) >= 2
    /\ call.args.records[1].Data = 0 /\ ~SessionOfRow(1).availability.rawdata
    /\ call.args.records[2].Data = 1 /\ SessionOfRow(2).availability.rawdata

\* handle_error has been called
HandleErrorCalled == call.op = "handle_error"

\* a resolver with an error_handling parameter has been called
PolicyResolverCalled ==
    call.op \in {"locate_rawdata_file", "rawdata_from_session",
                 "video_files_from_session"}

\* C24: handle_error dispatches on exactly four policies: 'ignore' returns with
\* nothing written, 'message' prints one diagnostic and returns, 'warn' emits one
\* warning of the supplied warning class and returns, 'error' raises the
\* supplied error class and is the only one to abort the caller; any other
\* value raises ValueError; an omitted policy, in handle_error and in every
\* resolver that takes one, is 'warn'.
C24_FourPolicies ==
    /\ HandleErrorCalled =>
        LET type == IF call.args.type = Omitted THEN "warn" ELSE call.args.type
            errorcls == IF call.args.errorcls = Omitted
                        THEN "SessionExplorationError" ELSE call.args.errorcls
            warncls == IF call.args.warncls = Omitted
                       THEN "SessionExplorationWarning" ELSE call.args.warncls
        IN  /\ type = "ignore" => call.exc = "" /\ call.out = <<>>
            /\ type = "message" =>
                /\ call.exc = ""
                /\ call.out = <<[kind |-> "print", cls |-> "", msg |-> call.args.msg]>>
            /\ type = "warn" =>
                /\ call.exc = ""
                /\ call.out = <<[kind |-> "warn", cls |-> warncls,
                                 msg |-> call.args.msg]>>
            /\ type = "error" => call.exc = errorcls /\ call.out = <<>>
            /\ type \notin {"ignore", "message", "warn", "error"} =>
                call.exc = "ValueError" /\ call.out = <<>>
            /\ call.exc # "" <=> type \notin {"ignore", "message", "warn"}
    /\ (PolicyResolverCalled /\ call.args.omitted) =>
        /\ call.args.error_handling = "warn"
        /\ \A i \in 1..Len(call.out) : call.out[i].kind = "warn"
        /\ Len(call.out) = Len(call.rep)
        /\ call.exc \in {"", "ValueError"}

C24_Witness ==
    /\ HandleErrorCalled
    /\ call.args.type = Omitted
    /\ call.args.warncls = "FileNotFoundWarning"
    /\ call.exc = ""
    /\ Len(call.out) = 1 /\ call.out[1].cls = "FileNotFoundWarning"

\* C25: DLCOutputFiles.replace returns a bundle in which each view named in
\* the call holds the output named for it and each view left out keeps the
\* value it has in the bundle replace was called on.
C25_ReplaceKeepsUnnamedViews ==
    call.op = "replace" =>
        \A v \in Views :
            call.ret[v] = IF call.args[v] # None
                          THEN DLCOutputFile(call.args[v])
                          ELSE call.args.self[v]

\* C26: when copy_to_temp fails inside ensure_dlc_output, the temporary
\* directory it made is removed and the exception that made it fail is the one
\* that reaches the caller of ensure_dlc_output.
C26_OriginalExceptionPropagates ==
    [][(run.pc = "idle" /\ run'.pc = "done" /\ run'.installed) =>
            /\ copy_to_temp(run'.videos).cause # ""
            /\ run'.exc = copy_to_temp(run'.videos).cause
            /\ \A p \in fs' : ~IsUnder(TempDir, p)]_vars

\* C27: every Session the registry produces has a type in {task, resting-state,
\* sensory-stim}, the types that have a short code.
C27_RegistryTypesClosed ==
    (call.op = "iterate_sessions_from_animal" /\ call.exc = "") =>
        \A i \in 1..Len(call.ret) : call.ret[i].type \in SessionTypes

\* C28: ensure_dlc_output treats the views independently: given a bundle
\* without a body video whose other videos are on disk, at least one of them
\* to be analysed, the call stages and analyses the views that are present
\* (the tool is run) and the staging directory is gone when the call has ended.
C28_ViewsIndependent ==
    (/\ run.pc = "done" /\ run.installed
     /\ run.videos.body = None
     /\ \A v \in Views : run.videos[v] # None => Exists(run.videos[v])
     /\ \E v \in Views : /\ run.videos[v] # None
                         /\ run.overwrite \/ ~is_available(run.files[v])) =>
        /\ \E v \in Views : run.tool[v] > 0
        /\ \A p \in fs : ~IsUnder(TempDir, p)

\* C29: when ensure_dlc_output has returned with overwrite set, each view that
\* had a located output and was computed again is located by a following
\* dlc_output_files_from_session, and the output located is the new one.
C29_OverwriteLeavesOneOutput ==
    (run.pc = "done" /\ run.exc = "" /\ run.overwrite) =>
        \A v \in Views :
            (is_available(run.files[v]) /\ run.tool[v] > 0) =>
                /\ run.newly_computed[v] \in fs
                /\ dlc_output_files_from_session(session, DlcRoots).ret[v]
                        = DLCOutputFile(run.newly_computed[v])

\* the sessions of a root as the registry is to enumerate them: those of the
\* record files in the run* directories, batch by batch, animal by animal
RegistrySessions(root) ==
    LET records == [root EXCEPT !.files = AnimalRecords(root)]
        batchdirs == SortedNames({d \in root.dirs : Match(<<"run", "*">>, d)})
    IN  BatchLoop(records, batchdirs, "VG1-GC").ret

\* the type codes of a filter are all known
KnownTypes(type) ==
    type # None =>
        \A item \in Refs(type) :
            item \in {<<"task">>, <<"rest">>, <<"ss">>, <<"resting-state">>,
                      <<"sensory-stim">>}

\* the session passes every filter given in the call
Wanted(sess) ==
    LET a == call.args
        long(code) == CASE code = "rest" -> "resting-state"
                        [] code = "ss" -> "sensory-stim"
                        [] OTHER -> code
    IN  /\ a.animal # None => sess.animal \in Refs(a.animal)
        /\ a.batch # None => sess.batch \in Refs(a.batch)
        /\ a.fromdate # None => DateNum(parse_date(a.fromdate)) <= DateNum(sess.date)
        /\ a.todate # None => DateNum(sess.date) <= DateNum(parse_date(a.todate))
        /\ a.type # None =>
                \E item \in Refs(a.type) : long(item[1]) = long(sess.type)

\* C30: on an existing sessions root iterate_sessions yields the sessions of
\* the registry that pass all the filters given (animal and batch in the list,
\* fromdate <= date <= todate, type in the list with short and long codes
\* alike), in the order of the registry, a filter of None excluding nothing;
\* an unknown type code in the filter makes it raise ValueError.
C30_YieldsFilteredRegistry ==
    (call.op = "iterate_sessions" /\ call.args.exists) =>
        IF ~KnownTypes(call.args.type) THEN call.exc = "ValueError"
        ELSE /\ call.exc = ""
             /\ call.ret = SelectSeq(RegistrySessions(call.args.root), Wanted)

====
